---------------------------- MODULE Spec2Model ----------------------------
(***************************************************************************)
(* Model of the two agent checks of ovaistariq/datadog-agent-checks:       *)
(*                                                                         *)
(*   src/tcp_roundtrip_latency_check.py  TCPRoundtripLatencyCheck          *)
(*   src/mysql_sys.py                    MySqlSys                          *)
(*                                                                         *)
(* Spec        one invocation of TCPRoundtripLatencyCheck.check            *)
(* SpecMySql   one invocation of MySqlSys.check                            *)
(* SpecVersion MySqlSys._version_greater_565 over a family of version      *)
(*             strings, followed by the gate of MySqlSys.check             *)
(*                                                                         *)
(* Text is a sequence of one-character strings.  Wall-clock time is        *)
(* counted in ticks; one time.sleep(0.1) lasts TicksPerPoll ticks, so a    *)
(* second is 10 * TicksPerPoll ticks.  A timeout (a float, in seconds) is  *)
(* held as its number of ticks.  An instance is a Python dict: a function  *)
(* whose domain is the set of keys present.  A key whose value is null is  *)
(* not modelled: a key is absent or carries a value of its type.           *)
(***************************************************************************)
EXTENDS Integers, Sequences, FiniteSets, TLC

VARIABLES
    pc,         \* position of the invocation
    instance,   \* the instance dict check() was called with
    raised,     \* class of the exception that left check(), or "none"
    events,     \* AgentCheck events emitted, in order
    metrics,    \* AgentCheck metric samples emitted, in order
    start,      \* _timeout_command: start
    now,        \* the wall clock, in ticks
    sleepLeft,  \* ticks left of the running time.sleep(0.1)
    child,      \* the netperf child: none, running, dying, zombie, reaped
    stdout,     \* what the child wrote to its stdout pipe
    exitedAt,   \* the tick at which the child exited on its own, or -1
    killSent,   \* os.kill(process.pid, SIGKILL) has been called
    outcome,    \* command execution: NotStarted, Running, Completed, Killed, SpawnFailed
    db,         \* MySqlSys: the arguments of pymysql.connect calls, in order
    queries,    \* MySqlSys: the statements executed, in order
    version,    \* MySqlSys: the text SELECT VERSION() returned
    warnings    \* MySqlSys: number of self.warning calls

vars == <<pc, instance, raised, events, metrics, start, now, sleepLeft, child,
          stdout, exitedAt, killSent, outcome, db, queries, version, warnings>>

latencyVars == <<start, now, sleepLeft, child, stdout, exitedAt, killSent, outcome>>
mysqlVars == <<db, queries, version, warnings>>

-----------------------------------------------------------------------------
(* Text helpers *)

Digits == {"0", "1", "2", "3", "4", "5", "6", "7", "8", "9"}

DigitVal(c) ==
    CASE c = "0" -> 0 [] c = "1" -> 1 [] c = "2" -> 2 [] c = "3" -> 3
      [] c = "4" -> 4 [] c = "5" -> 5 [] c = "6" -> 6 [] c = "7" -> 7
      [] c = "8" -> 8 [] c = "9" -> 9

IsDigits(s) == Len(s) > 0 /\ \A i \in 1..Len(s) : s[i] \in Digits

RECURSIVE DecVal(_)
DecVal(s) == IF s = <<>> THEN 0
             ELSE 10 * DecVal(SubSeq(s, 1, Len(s) - 1)) + DigitVal(s[Len(s)])

\* str.split(sep) for a one-character separator
RECURSIVE Split(_, _)
Split(s, sep) ==
    IF \E i \in 1..Len(s) : s[i] = sep
    THEN LET i == CHOOSE j \in 1..Len(s) :
                      s[j] = sep /\ \A k \in 1..(j - 1) : s[k] # sep
         IN <<SubSeq(s, 1, i - 1)>> \o Split(SubSeq(s, i + 1, Len(s)), sep)
    ELSE <<s>>

\* dict.get(key, default)
Get(d, key, default) == IF key \in DOMAIN d THEN d[key] ELSE default

EmptyDict == [k \in {} |-> 0]

Opt(key, values) == {EmptyDict} \cup {key :> v : v \in values}


-----------------------------------------------------------------------------
(* TCPRoundtripLatencyCheck: configuration *)

TicksPerPoll == 2
PollsPerSecond == 10
TicksPerSecond == PollsPerSecond * TicksPerPoll
DefaultTimeoutSeconds == 5

Hosts == {"10.0.0.1", "10.0.0.2"}
Timeouts == {TicksPerSecond \div 2, TicksPerSecond, 2 * TicksPerSecond - 1}

LatencyInstances ==
    {h @@ p @@ q @@ r @@ t :
        h \in Opt("host", Hosts \cup {""}),
        p \in Opt("port", {0, 12865}),
        q \in Opt("tcp_request_size_bytes", {0, 512}),
        r \in Opt("tcp_response_size_bytes", {0, 256}),
        t \in Opt("timeout", Timeouts)}

Latency_get_config(inst) ==
    [host |-> Get(inst, "host", ""),
     port |-> Get(inst, "port", 0),
     tcp_request_size_bytes |-> Get(inst, "tcp_request_size_bytes", 0),
     tcp_response_size_bytes |-> Get(inst, "tcp_response_size_bytes", 0),
     timeout |-> Get(inst, "timeout", DefaultTimeoutSeconds * TicksPerSecond)]

\* the validity test without its last operand
LatencyConfigInvalid_NoResponseSize(cfg) ==
    \/ cfg.host = ""
    \/ cfg.port = 0
    \/ cfg.tcp_request_size_bytes = 0

\* the test of check() that raises "Netperf server host is needed."
LatencyConfigInvalid(cfg) ==
    \/ cfg.host = ""
    \/ cfg.port = 0
    \/ cfg.tcp_request_size_bytes = 0
    \/ cfg.tcp_response_size_bytes = 0

\* md5(host).hexdigest(): a digest, determined by the host alone
Md5(host) == <<"md5", host>>

aggregation_key(host) == Md5(host)

cfgOf == Latency_get_config(instance)

-----------------------------------------------------------------------------
(* TCPRoundtripLatencyCheck: events and exception handling *)

timeout_event(host, timeout, key) ==
    [event_type |-> "mysql_tcp_rt_latency_check",
     kind |-> "timeout",
     msg_title |-> <<"RT latency timeout", host>>,
     msg_text |-> <<"timed out after", host, timeout>>,
     aggregation_key |-> key]

error_event(host, error_msg, key) ==
    [event_type |-> "mysql_tcp_rt_latency_check",
     kind |-> "error",
     msg_title |-> <<"RT latency command returned invalid code", host>>,
     msg_text |-> <<error_msg>>,
     aggregation_key |-> key]

\* what subprocess.Popen raises when the command cannot be launched
PopenRaises == {"OSError"}

\* the except clause around Popen: CalledProcessError becomes RuntimeError
TimeoutCommandExcept(e) == IF e = "CalledProcessError" THEN "RuntimeError" ELSE e

\* the except clauses of _collect_metrics around _timeout_command
CollectMetricsHandles(e) == e \in {"RuntimeError", "TCPRoundtripLatencyCheckTimeout"}

\* the two handlers with their events exchanged
CollectMetricsEvent_Swapped(e, cfg, key) ==
    IF e = "RuntimeError"
    THEN timeout_event(cfg.host, cfg.timeout, key)
    ELSE error_event(cfg.host, e, key)

CollectMetricsEvent(e, cfg, key) ==
    IF e = "RuntimeError"
    THEN error_event(cfg.host, e, key)
    ELSE timeout_event(cfg.host, cfg.timeout, key)

\* an exception e leaves _timeout_command inside the try of _collect_metrics
RaiseInTry(e) ==
    IF CollectMetricsHandles(e)
    THEN /\ events' = Append(events, CollectMetricsEvent(e, cfgOf, aggregation_key(cfgOf.host)))
         /\ raised' = "none"
    ELSE /\ events' = events
         /\ raised' = e

-----------------------------------------------------------------------------
(* TCPRoundtripLatencyCheck: the child's output and its decoding *)

RECURSIVE Join(_, _)
Join(fields, sep) ==
    IF Len(fields) = 0 THEN <<>>
    ELSE IF Len(fields) = 1 THEN fields[1]
    ELSE fields[1] \o <<sep>> \o Join(Tail(fields), sep)

TxtTCP == <<"T", "C", "P">>
Txt667_240 == <<"6", "6", "7", ".", "2", "4", "0">>
Txt12_5 == <<"1", "2", ".", "5">>
Txt785 == <<"7", "8", "5">>
Txt970 == <<"9", "7", "0">>
TxtAbc == <<"a", "b", "c">>

\* one line in the column order of NETPERF_OUTPUT_COLS
NetperfLine(protocol, rt, p90, p99) == Join(<<protocol, rt, p90, p99>>, ",")

WellFormedOutputs ==
    {NetperfLine(TxtTCP, rt, p90, p99) \o nl :
        rt \in {Txt667_240, Txt12_5, Txt785},
        p90 \in {Txt785, Txt970},
        p99 \in {Txt970},
        nl \in {<<>>, <<"\n">>}}

MalformedOutputs ==
    {<<>>,
     Join(<<TxtTCP, Txt667_240>>, ","),
     NetperfLine(TxtTCP, TxtAbc, Txt785, Txt970)}

Outputs == WellFormedOutputs \cup MalformedOutputs

\* csv.reader([res]): the one row of the one line, its terminator dropped;
\* an empty line gives an empty row
CsvRow(res) ==
    LET line == IF Len(res) > 0 /\ res[Len(res)] = "\n"
                THEN SubSeq(res, 1, Len(res) - 1) ELSE res
    IN IF line = <<>> THEN <<>> ELSE Split(line, ",")

\* float(text) for decimal text with at most three fractional digits, in
\* thousandths; FloatOk is false where float() raises ValueError
FloatOk(text) ==
    LET parts == Split(text, ".")
    IN /\ Len(parts) \in {1, 2}
       /\ \A i \in 1..Len(parts) : \A j \in 1..Len(parts[i]) : parts[i][j] \in Digits
       /\ \E i \in 1..Len(parts) : Len(parts[i]) > 0

Float(text) ==
    LET parts == Split(text, ".")
        frac == IF Len(parts) = 2 THEN parts[2] ELSE <<>>
        pad == frac \o SubSeq(<<"0", "0", "0">>, 1, 3 - Len(frac))
    IN DecVal(parts[1]) * 1000 + DecVal(pad)

\* the 90th percentile column taken for the latency column
LatencyField_P90(row) == row[3]

\* the field of the row that _collect_metrics turns into the sample
LatencyField(row) == row[2]

histogram(name, value) == [kind |-> "histogram", name |-> name, value |-> value]

-----------------------------------------------------------------------------
(* TCPRoundtripLatencyCheck: one invocation of check *)

\* (now - start).seconds: the whole seconds of the difference, within a day
TimedeltaSeconds(d) == (d \div TicksPerSecond) % 86400

\* (now - start).seconds > timeout
DeadlinePassed(t0, t1, timeout) == TimedeltaSeconds(t1 - t0) * TicksPerSecond > timeout

Init ==
    /\ pc = "idle"
    /\ instance = EmptyDict
    /\ raised = "none"
    /\ events = <<>>
    /\ metrics = <<>>
    /\ start = 0
    /\ now = 0
    /\ sleepLeft = 0
    /\ child = "none"
    /\ stdout = <<>>
    /\ exitedAt = -1
    /\ killSent = FALSE
    /\ outcome = "NotStarted"
    /\ db = <<>>
    /\ queries = <<>>
    /\ version = <<>>
    /\ warnings = 0

\* check(): _get_config, the validity test, and _collect_metrics up to the
\* call of _timeout_command, which takes start
Check ==
    /\ pc = "idle"
    /\ \E inst \in LatencyInstances :
        /\ instance' = inst
        /\ IF LatencyConfigInvalid(Latency_get_config(inst))
           THEN /\ raised' = "Exception"
                /\ pc' = "done"
           ELSE /\ raised' = raised
                /\ pc' = "popen"
    /\ start' = now
    /\ UNCHANGED <<events, metrics, now, sleepLeft, child, stdout, exitedAt,
                   killSent, outcome>>
    /\ UNCHANGED mysqlVars

\* subprocess.Popen(cmd, ...): the child runs
PopenOk ==
    /\ pc = "popen"
    /\ child' = "running"
    /\ outcome' = "Running"
    /\ pc' = "poll"
    /\ UNCHANGED <<instance, raised, events, metrics, start, now, sleepLeft,
                   stdout, exitedAt, killSent>>
    /\ UNCHANGED mysqlVars

\* subprocess.Popen(cmd, ...) raises: the command cannot be launched
PopenFails ==
    /\ pc = "popen"
    /\ \E e \in PopenRaises : RaiseInTry(TimeoutCommandExcept(e))
    /\ outcome' = "SpawnFailed"
    /\ pc' = "done"
    /\ UNCHANGED <<instance, metrics, start, now, sleepLeft, child, stdout,
                   exitedAt, killSent>>
    /\ UNCHANGED mysqlVars

\* while process.poll() is None: poll() reaps a child that has exited, and
\* the loop ends
Poll ==
    /\ pc = "poll"
    /\ IF child = "zombie"
       THEN /\ child' = "reaped"
            /\ outcome' = "Completed"
            /\ pc' = "read"
            /\ sleepLeft' = sleepLeft
       ELSE /\ child' = child
            /\ outcome' = outcome
            /\ pc' = "sleep"
            /\ sleepLeft' = TicksPerPoll
    /\ UNCHANGED <<instance, raised, events, metrics, start, now, stdout,
                   exitedAt, killSent>>
    /\ UNCHANGED mysqlVars

\* one tick of time.sleep(0.1), then now = datetime.datetime.now(); the
\* child may exit on its own during the tick
Sleep ==
    /\ pc = "sleep"
    /\ now' = now + 1
    /\ sleepLeft' = sleepLeft - 1
    /\ pc' = IF sleepLeft = 1 THEN "deadline" ELSE "sleep"
    /\ \/ UNCHANGED <<child, stdout, exitedAt>>
       \/ /\ child = "running"
          /\ child' = "zombie"
          /\ exitedAt' = now + 1
          /\ \E out \in Outputs : stdout' = out
    /\ UNCHANGED <<instance, raised, events, metrics, start, killSent, outcome>>
    /\ UNCHANGED mysqlVars

\* the deadline test fails: back to the loop condition
DeadlineContinue ==
    /\ pc = "deadline"
    /\ ~DeadlinePassed(start, now, cfgOf.timeout)
    /\ pc' = "poll"
    /\ UNCHANGED <<instance, raised, events, metrics, start, now, sleepLeft,
                   child, stdout, exitedAt, killSent, outcome>>
    /\ UNCHANGED mysqlVars

\* os.waitpid(-1, os.WNOHANG) after os.kill: reaps the child if it has
\* terminated by now, and returns at once if it has not
WaitpidNoHang(c) == IF c = "zombie" THEN {"reaped"} ELSE {"reaped", "dying"}

\* the deadline test succeeds: os.kill, os.waitpid, raise; the timeout is
\* caught in _collect_metrics
DeadlineKill ==
    /\ pc = "deadline"
    /\ DeadlinePassed(start, now, cfgOf.timeout)
    /\ killSent' = TRUE
    /\ \E c \in WaitpidNoHang(child) : child' = c
    /\ outcome' = "Killed"
    /\ RaiseInTry("TCPRoundtripLatencyCheckTimeout")
    /\ pc' = "done"
    /\ UNCHANGED <<instance, metrics, start, now, sleepLeft, stdout, exitedAt>>
    /\ UNCHANGED mysqlVars

\* the killed child terminates after the signal is delivered
ChildDies ==
    /\ child = "dying"
    /\ child' = "zombie"
    /\ UNCHANGED <<pc, instance, raised, events, metrics, start, now, sleepLeft,
                   stdout, exitedAt, killSent, outcome>>
    /\ UNCHANGED mysqlVars

\* return process.stdout.read(); the row is unpacked into four names, its
\* latency field converted and emitted
ReadAndEmit ==
    /\ pc = "read"
    /\ LET row == CsvRow(stdout)
       IN IF Len(row) = 4 /\ FloatOk(LatencyField(row))
          THEN /\ metrics' = Append(metrics,
                      histogram("mysql.net.tcp_rt_latency", Float(LatencyField(row))))
               /\ raised' = raised
          ELSE /\ metrics' = metrics
               /\ raised' = "ValueError"
    /\ pc' = "done"
    /\ UNCHANGED <<instance, events, start, now, sleepLeft, child, stdout,
                   exitedAt, killSent, outcome>>
    /\ UNCHANGED mysqlVars

Next ==
    \/ Check
    \/ PopenOk
    \/ PopenFails
    \/ Poll
    \/ Sleep
    \/ DeadlineContinue
    \/ DeadlineKill
    \/ ChildDies
    \/ ReadAndEmit

Spec == Init /\ [][Next]_vars

-----------------------------------------------------------------------------
(* TCPRoundtripLatencyCheck: properties *)

\* C1: whenever the timeout has been raised in _timeout_command, the child
\* has been killed and reaped: it is neither still running nor a zombie.
C1_TimeoutOnlyAfterChildReaped ==
    outcome = "Killed" => (killSent /\ child = "reaped")

\* C2: with a valid configuration, when the command cannot be launched, or
\* exits before producing any output, check emits exactly one error event
\* (title naming the host, body the error text), no histogram sample, and
\* no exception leaves check.
C2_LaunchFailureBecomesErrorEvent ==
    (/\ pc = "done"
     /\ \/ outcome = "SpawnFailed"
        \/ outcome = "Completed" /\ stdout = <<>>)
    => /\ raised = "none"
       /\ metrics = <<>>
       /\ Len(events) = 1
       /\ events[1].kind = "error"
       /\ events[1].msg_title[2] = instance["host"]

\* C3: when the command execution ends in Killed, check emits exactly one
\* timeout event and no error event, the event's aggregation key is the hash
\* of the configured host, no histogram sample is emitted and no exception
\* leaves check.
C3_KilledEmitsOneTimeoutEvent ==
    (pc = "done" /\ outcome = "Killed")
    => /\ raised = "none"
       /\ metrics = <<>>
       /\ Len(events) = 1
       /\ events[1].kind = "timeout"
       /\ events[1].aggregation_key = Md5(instance["host"])

C3_Witness ==
    /\ pc = "done"
    /\ outcome = "Killed"
    /\ Len(events) = 1
    /\ instance["host"] = "10.0.0.2"

\* C4: no poll leaves a running child alone once the time elapsed since the
\* spawn exceeds the configured timeout: the loop goes round again only
\* while the elapsed time is within the timeout.
C4_KilledAtFirstPollPastTimeout ==
    (pc = "poll" /\ child = "running") => now - start <= cfgOf.timeout

\* an instance the validity test of check() must reject
C8_Absent0(key) == key \notin DOMAIN instance \/ instance[key] = 0

C8_InvalidInstance ==
    \/ "host" \notin DOMAIN instance
    \/ instance["host"] = ""
    \/ C8_Absent0("port")
    \/ C8_Absent0("tcp_request_size_bytes")
    \/ C8_Absent0("tcp_response_size_bytes")

\* C8: an instance whose host is empty or absent, or whose port, request
\* size or response size is zero or absent, makes check raise the
\* configuration error before any process is spawned, with no event and no
\* histogram sample.
C8_InvalidConfigAbortsBeforeSpawn ==
    (pc # "idle" /\ C8_InvalidInstance)
    => /\ pc = "done"
       /\ raised = "Exception"
       /\ child = "none"
       /\ outcome = "NotStarted"
       /\ ~killSent
       /\ events = <<>>
       /\ metrics = <<>>

C8_Witness ==
    /\ pc = "done"
    /\ raised = "Exception"
    /\ child = "none"
    /\ "host" \in DOMAIN instance /\ instance["host"] = "10.0.0.1"
    /\ ~C8_Absent0("port")
    /\ ~C8_Absent0("tcp_request_size_bytes")
    /\ "tcp_response_size_bytes" \in DOMAIN instance
    /\ instance["tcp_response_size_bytes"] = 0

\* decimal texts of the output with their values in thousandths
C9_Numerals ==
    {<<Txt667_240, 667240>>, <<Txt12_5, 12500>>, <<Txt785, 785000>>,
     <<Txt970, 970000>>}

C9_StdoutIs(line) == stdout = line \/ stdout = line \o <<"\n">>

\* C9: a histogram sample is emitted, and the output decoded, only after the
\* command execution reached Completed; and a Completed execution whose
\* output is one line PROTOCOL,RT_LATENCY,P90_LATENCY,P99_LATENCY yields
\* exactly one sample mysql.net.tcp_rt_latency whose value is the second
\* field, no event, and nothing for the two percentile fields.
C9_HistogramOnlyFromCompleted ==
    /\ (metrics # <<>> \/ raised = "ValueError") => outcome = "Completed"
    /\ outcome \in {"Killed", "SpawnFailed"} => pc = "done" /\ metrics = <<>>
    /\ \A rt \in C9_Numerals, p90 \in C9_Numerals, p99 \in C9_Numerals :
        (/\ pc = "done"
         /\ outcome = "Completed"
         /\ C9_StdoutIs(NetperfLine(TxtTCP, rt[1], p90[1], p99[1])))
        => /\ metrics = <<[kind |-> "histogram",
                           name |-> "mysql.net.tcp_rt_latency",
                           value |-> rt[2]]>>
           /\ events = <<>>
           /\ raised = "none"

C9_Witness ==
    /\ pc = "done"
    /\ outcome = "Completed"
    /\ stdout = NetperfLine(TxtTCP, Txt667_240, Txt785, Txt970) \o <<"\n">>
    /\ Len(metrics) = 1
    /\ metrics[1].value = 667240

\* C10: a child that exits on its own while the time elapsed since the spawn
\* does not exceed the configured timeout is never sent the kill signal and
\* never reported as a timeout: the execution ends in Completed.
C10_ExitBeforeDeadlineCompletes ==
    (exitedAt # -1 /\ exitedAt - start <= cfgOf.timeout)
    => /\ ~killSent
       /\ outcome # "Killed"
       /\ pc = "done" => outcome = "Completed"

-----------------------------------------------------------------------------
(* MySqlSys: configuration and connection *)

MySqlInstances ==
    {h @@ u @@ p @@ w @@ k @@ f :
        h \in Opt("server", {"", "db1"}),
        u \in Opt("user", {"", "monitor"}),
        p \in Opt("port", {0, 3306}),
        w \in Opt("pass", {"secret"}),
        k \in Opt("sock", {"", "/tmp/mysql.sock"}),
        f \in Opt("defaults_file", {"", "/etc/my.cnf"})}

MySql_get_config(inst) ==
    [host |-> Get(inst, "server", ""),
     user |-> Get(inst, "user", ""),
     port |-> Get(inst, "port", 0),
     password |-> Get(inst, "pass", ""),
     mysql_sock |-> Get(inst, "sock", ""),
     defaults_file |-> Get(inst, "defaults_file", "")]

\* the test of check() that raises "Mysql host and user are needed."
MySqlConfigInvalid(cfg) ==
    (cfg.host = "" \/ cfg.user = "") /\ cfg.defaults_file = ""

schema_name == "sys"

\* _connect with the socket tested before the defaults file
_connect_SocketFirst(cfg) ==
    IF cfg.mysql_sock # ""
    THEN [unix_socket |-> cfg.mysql_sock, user |-> cfg.user,
          passwd |-> cfg.password, db |-> schema_name]
    ELSE IF cfg.defaults_file # ""
    THEN [read_default_file |-> cfg.defaults_file, db |-> schema_name]
    ELSE IF cfg.port # 0
    THEN [host |-> cfg.host, port |-> cfg.port, user |-> cfg.user,
          passwd |-> cfg.password, db |-> schema_name]
    ELSE [host |-> cfg.host, user |-> cfg.user, passwd |-> cfg.password,
          db |-> schema_name]

\* _connect: the keyword arguments of the one pymysql.connect call
_connect(cfg) ==
    IF cfg.defaults_file # ""
    THEN [read_default_file |-> cfg.defaults_file, db |-> schema_name]
    ELSE IF cfg.mysql_sock # ""
    THEN [unix_socket |-> cfg.mysql_sock, user |-> cfg.user,
          passwd |-> cfg.password, db |-> schema_name]
    ELSE IF cfg.port # 0
    THEN [host |-> cfg.host, port |-> cfg.port, user |-> cfg.user,
          passwd |-> cfg.password, db |-> schema_name]
    ELSE [host |-> cfg.host, user |-> cfg.user, passwd |-> cfg.password,
          db |-> schema_name]

-----------------------------------------------------------------------------
(* MySqlSys: the version gate *)

\* _get_version: the text before the first '-', split on '.'
_get_version(text) == Split(Split(text, "-")[1], ".")

\* re.match(r"([0-9]+)", text).group(1): the leading run of digits; empty
\* where the match fails
RECURSIVE LeadingDigits(_)
LeadingDigits(text) ==
    IF text # <<>> /\ Head(text) \in Digits
    THEN <<Head(text)>> \o LeadingDigits(Tail(text))
    ELSE <<>>

\* the statements of the try block that raise: an index out of range,
\* int() of text that is no number, group() of a failed match
VersionParseRaises(segs) ==
    \/ Len(segs) < 3
    \/ ~IsDigits(segs[1])
    \/ ~IsDigits(segs[2])
    \/ LeadingDigits(segs[3]) = <<>>

\* Python's ordering of tuples: by the first position that differs
RECURSIVE TupleGreater(_, _)
TupleGreater(a, b) ==
    IF a = <<>> \/ b = <<>> THEN Len(a) > Len(b)
    ELSE IF Head(a) # Head(b) THEN Head(a) > Head(b)
    ELSE TupleGreater(Tail(a), Tail(b))

VersionFloor == <<5, 6, 5>>

\* the gate with >= for >
_version_greater_565_OrEqual(text) ==
    LET segs == _get_version(text)
    IN IF VersionParseRaises(segs) THEN FALSE
       ELSE LET v == <<DecVal(segs[1]), DecVal(segs[2]),
                       DecVal(LeadingDigits(segs[3]))>>
            IN v = VersionFloor \/ TupleGreater(v, VersionFloor)

_version_greater_565(text) ==
    LET segs == _get_version(text)
    IN IF VersionParseRaises(segs) THEN FALSE
       ELSE TupleGreater(<<DecVal(segs[1]), DecVal(segs[2]),
                           DecVal(LeadingDigits(segs[3]))>>, VersionFloor)

\* version texts: up to MaxSegments segments joined by '.', then a suffix
MaxSegments == 4

Segments ==
    {<<>>, <<"4">>, <<"5">>, <<"6">>, <<"7">>, <<"1", "0">>,
     <<"5", "1", "a">>, <<"a">>}

Suffixes == {<<>>, <<"-", "l", "o", "g">>, <<"-", "6", ".", "7", ".", "8">>}

RECURSIVE SegmentLists(_)
SegmentLists(n) ==
    IF n = 0 THEN {<<>>}
    ELSE LET shorter == SegmentLists(n - 1)
         IN shorter \cup {Append(l, g) : l \in {x \in shorter : Len(x) = n - 1},
                                         g \in Segments}

VersionTexts ==
    {Join(l, ".") \o x : l \in SegmentLists(MaxSegments) \ {<<>>}, x \in Suffixes}

ServerVersions ==
    {Join(<<<<"5">>, <<"6">>, <<"6">>>>, "."),
     Join(<<<<"5">>, <<"6">>, <<"5">>>>, "."),
     Join(<<<<"5">>, <<"6">>, <<"4">>>>, "."),
     Join(<<<<"5">>, <<"0">>, <<"5", "1", "a">>>>, ".") \o <<"-", "l", "o", "g">>,
     Join(<<<<"5">>, <<"7">>, <<"1", "0">>>>, ".") \o <<"-", "l", "o", "g">>,
     Join(<<<<"8">>, <<"0">>>>, ".")}

-----------------------------------------------------------------------------
(* MySqlSys: queries and metric emission *)

MaxRows == 2

SqlVersion == "SELECT VERSION()"
SqlSysVersion == "select sys_version from version"
SqlPercentile == "select * from x$ps_digest_95th_percentile_by_avg_us"

\* one cursor.execute: the statement, the rows of its result (first column
\* only), and whether execute raised
Executed(sql, rows, failed) == [sql |-> sql, rows |-> rows, failed |-> failed]

ResultSets(values) == UNION {[1..n -> values] : n \in 0..MaxRows}

PercentileValues == {0, 12345}

METRICS_MAP ==
    [Ps_digest_95th_percentile_by_avg_us |->
        <<"mysql.sys.query_exec_time_95th_per_us", "gauge">>]

\* the schema test with >= for >
_is_mysql_sys_schema_installed_OrEmpty(rows) == Len(rows) >= 0

\* _is_mysql_sys_schema_installed: cursor.rowcount > 0
_is_mysql_sys_schema_installed(rows) == Len(rows) > 0

\* _get_query_exec_time_95th_per_us raises unless cursor.rowcount = 1
PercentileFetchRaises(rows) == Len(rows) # 1

RECURSIVE KeysInOrder(_)
KeysInOrder(keys) ==
    IF keys = {} THEN <<>>
    ELSE LET k == CHOOSE x \in keys : TRUE
         IN <<k>> \o KeysInOrder(keys \ {k})

\* _rate_or_gauge_statuses: one sample for each status of the map that the
\* results hold (_collect_scalar gives None for the others)
RECURSIVE SamplesFor(_, _, _)
SamplesFor(keys, statuses, dbResults) ==
    IF keys = <<>> THEN <<>>
    ELSE LET k == Head(keys)
             rest == SamplesFor(Tail(keys), statuses, dbResults)
         IN IF k \in DOMAIN dbResults /\ statuses[k][2] \in {"rate", "gauge"}
            THEN <<[kind |-> statuses[k][2], name |-> statuses[k][1],
                    value |-> dbResults[k]]>> \o rest
            ELSE rest

_rate_or_gauge_statuses(statuses, dbResults) ==
    SamplesFor(KeysInOrder(DOMAIN statuses), statuses, dbResults)

\* _collect_metrics: the dict of fetched values
mysql_sys_metrics(rows) == [Ps_digest_95th_percentile_by_avg_us |-> rows[1]]

-----------------------------------------------------------------------------
(* MySqlSys: one invocation of check *)

ErrConfig == "Mysql host and user are needed."
ErrVersion == "MySQL version >= 5.6.5 is required."
ErrSchema == "The mysql_sys utility is not installed."
ErrFetch == "Failed to fetch record from the table x$ps_digest_95th_percentile_by_avg_us"
ErrDriver == "pymysql.Error"

InitMySql == Init

\* check(): _get_config and the validity test
MySqlCheck ==
    /\ pc = "idle"
    /\ \E inst \in MySqlInstances :
        /\ instance' = inst
        /\ IF MySqlConfigInvalid(MySql_get_config(inst))
           THEN /\ raised' = ErrConfig
                /\ pc' = "done"
           ELSE /\ raised' = raised
                /\ pc' = "connect"
    /\ UNCHANGED <<events, metrics, db, queries, version, warnings>>
    /\ UNCHANGED latencyVars

\* _connect: pymysql.connect returns a connection
ConnectOk ==
    /\ pc = "connect"
    /\ db' = Append(db, _connect(MySql_get_config(instance)))
    /\ pc' = "version"
    /\ UNCHANGED <<instance, raised, events, metrics, queries, version, warnings>>
    /\ UNCHANGED latencyVars

\* _connect: pymysql.connect raises
ConnectFails ==
    /\ pc = "connect"
    /\ db' = Append(db, _connect(MySql_get_config(instance)))
    /\ raised' = ErrDriver
    /\ pc' = "done"
    /\ UNCHANGED <<instance, events, metrics, queries, version, warnings>>
    /\ UNCHANGED latencyVars

\* _version_greater_565 on the text the server reports, then the gate of check()
VersionGate(texts) ==
    /\ pc = "version"
    /\ \E text \in texts :
        /\ version' = text
        /\ queries' = Append(queries, Executed(SqlVersion, <<text>>, FALSE))
        /\ warnings' = IF VersionParseRaises(_get_version(text))
                       THEN warnings + 1 ELSE warnings
        /\ IF _version_greater_565(text)
           THEN /\ pc' = "schema"
                /\ raised' = raised
           ELSE /\ pc' = "done"
                /\ raised' = ErrVersion
    /\ UNCHANGED <<instance, events, metrics, db>>
    /\ UNCHANGED latencyVars

VersionGateServer == VersionGate(ServerVersions)

\* SELECT VERSION() raises inside the try block of _version_greater_565
VersionQueryFails ==
    /\ pc = "version"
    /\ queries' = Append(queries, Executed(SqlVersion, <<>>, TRUE))
    /\ warnings' = warnings + 1
    /\ pc' = "done"
    /\ raised' = ErrVersion
    /\ UNCHANGED <<instance, events, metrics, db, version>>
    /\ UNCHANGED latencyVars

\* _is_mysql_sys_schema_installed, then the test of check()
SchemaCheck ==
    /\ pc = "schema"
    /\ \E rows \in ResultSets({"1.0.0"}) :
        /\ queries' = Append(queries, Executed(SqlSysVersion, rows, FALSE))
        /\ IF _is_mysql_sys_schema_installed(rows)
           THEN /\ pc' = "metric"
                /\ raised' = raised
           ELSE /\ pc' = "done"
                /\ raised' = ErrSchema
    /\ UNCHANGED <<instance, events, metrics, db, version, warnings>>
    /\ UNCHANGED latencyVars

SchemaQueryFails ==
    /\ pc = "schema"
    /\ queries' = Append(queries, Executed(SqlSysVersion, <<>>, TRUE))
    /\ pc' = "done"
    /\ raised' = ErrDriver
    /\ UNCHANGED <<instance, events, metrics, db, version, warnings>>
    /\ UNCHANGED latencyVars

\* _collect_metrics: the percentile query, then _rate_or_gauge_statuses
CollectMetrics ==
    /\ pc = "metric"
    /\ \E rows \in ResultSets(PercentileValues) :
        /\ queries' = Append(queries, Executed(SqlPercentile, rows, FALSE))
        /\ IF PercentileFetchRaises(rows)
           THEN /\ raised' = ErrFetch
                /\ metrics' = metrics
           ELSE /\ raised' = raised
                /\ metrics' = metrics \o
                      _rate_or_gauge_statuses(METRICS_MAP, mysql_sys_metrics(rows))
    /\ pc' = "done"
    /\ UNCHANGED <<instance, events, db, version, warnings>>
    /\ UNCHANGED latencyVars

PercentileQueryFails ==
    /\ pc = "metric"
    /\ queries' = Append(queries, Executed(SqlPercentile, <<>>, TRUE))
    /\ pc' = "done"
    /\ raised' = ErrDriver
    /\ UNCHANGED <<instance, events, metrics, db, version, warnings>>
    /\ UNCHANGED latencyVars

NextMySql ==
    \/ MySqlCheck
    \/ ConnectOk
    \/ ConnectFails
    \/ VersionGateServer
    \/ VersionQueryFails
    \/ SchemaCheck
    \/ SchemaQueryFails
    \/ CollectMetrics
    \/ PercentileQueryFails

SpecMySql == InitMySql /\ [][NextMySql]_vars

\* the version gate alone, from the state check() is in when it reaches it
GateInstance == ("server" :> "db1") @@ ("user" :> "monitor")

InitVersion ==
    /\ pc = "version"
    /\ instance = GateInstance
    /\ raised = "none"
    /\ events = <<>>
    /\ metrics = <<>>
    /\ start = 0
    /\ now = 0
    /\ sleepLeft = 0
    /\ child = "none"
    /\ stdout = <<>>
    /\ exitedAt = -1
    /\ killSent = FALSE
    /\ outcome = "NotStarted"
    /\ db = <<_connect(MySql_get_config(GateInstance))>>
    /\ queries = <<>>
    /\ version = <<>>
    /\ warnings = 0

VersionGateAny == VersionGate(VersionTexts)

NextVersion == VersionGateAny

SpecVersion == InitVersion /\ [][NextVersion]_vars

-----------------------------------------------------------------------------
(* MySqlSys: properties *)

\* the version rule stated by positions in the text
C5_Cut(text, sep) ==
    IF \E i \in 1..Len(text) : text[i] = sep
    THEN SubSeq(text, 1, (CHOOSE i \in 1..Len(text) :
                      text[i] = sep /\ \A k \in 1..(i - 1) : text[k] # sep) - 1)
    ELSE text

C5_After(text, sep) ==
    SubSeq(text, Len(C5_Cut(text, sep)) + 2, Len(text))

C5_DigitRun(text) ==
    LET n == CHOOSE m \in 0..Len(text) :
                 /\ \A i \in 1..m : text[i] \in Digits
                 /\ m < Len(text) => text[m + 1] \notin Digits
    IN SubSeq(text, 1, n)

C5_Number(digits) ==
    LET Pow10[k \in 0..Len(digits)] == IF k = 0 THEN 1 ELSE 10 * Pow10[k - 1]
        Sum[i \in 0..Len(digits)] ==
            IF i = 0 THEN 0
            ELSE Sum[i - 1] + DigitVal(digits[i]) * Pow10[Len(digits) - i]
    IN Sum[Len(digits)]

C5_Eligible(text) ==
    LET core == C5_Cut(text, "-")
        major == C5_Cut(core, ".")
        rest1 == C5_After(core, ".")
        minor == C5_Cut(rest1, ".")
        patch == C5_DigitRun(C5_Cut(C5_After(rest1, "."), "."))
        dots == Cardinality({i \in 1..Len(core) : core[i] = "."})
    IN /\ dots >= 2
       /\ major # <<>> /\ \A i \in 1..Len(major) : major[i] \in Digits
       /\ minor # <<>> /\ \A i \in 1..Len(minor) : minor[i] \in Digits
       /\ patch # <<>>
       /\ LET a == C5_Number(major)
              b == C5_Number(minor)
              c == C5_Number(patch)
          IN \/ a > 5
             \/ a = 5 /\ b > 6
             \/ a = 5 /\ b = 6 /\ c > 5

C5_Txt565 == <<"5", ".", "6", ".", "5">>

C6_Sqls == <<SqlVersion, SqlSysVersion, SqlPercentile>>

C6_Present(key) == key \in DOMAIN instance /\ instance[key] # ""

C6_ConfigOk ==
    (C6_Present("server") /\ C6_Present("user")) \/ C6_Present("defaults_file")

\* C6: check runs config validation, connect, version gate, schema check and
\* metric fetch in that order and a failing stage raises and ends the
\* invocation: no connection without (host and user) or a defaults file, no
\* schema query for an ineligible version, no metric query when the sys
\* version table has no row, the gauge exactly once with the fetched value
\* if and only if the metric query returns exactly one row, and never an
\* event.
C6_StagesInOrder ==
    /\ events = <<>>
    /\ (pc # "idle" /\ ~C6_ConfigOk)
          => (db = <<>> /\ queries = <<>> /\ raised = ErrConfig /\ pc = "done")
    /\ Len(db) <= 1
    /\ Len(queries) <= 3
    /\ \A i \in 1..Len(queries) : queries[i].sql = C6_Sqls[i]
    /\ queries # <<>> => (Len(db) = 1 /\ C6_ConfigOk)
    /\ Len(queries) >= 2
          => (~queries[1].failed /\ _version_greater_565(queries[1].rows[1]))
    /\ Len(queries) >= 3 => (~queries[2].failed /\ Len(queries[2].rows) >= 1)
    /\ pc # "done" => (metrics = <<>> /\ raised = "none")
    /\ pc = "done" =>
          IF Len(queries) = 3 /\ ~queries[3].failed /\ Len(queries[3].rows) = 1
          THEN /\ metrics = <<[kind |-> "gauge",
                               name |-> "mysql.sys.query_exec_time_95th_per_us",
                               value |-> queries[3].rows[1]]>>
               /\ raised = "none"
          ELSE /\ metrics = <<>>
               /\ raised # "none"

C6_Witness ==
    /\ pc = "done"
    /\ Len(queries) = 3
    /\ Len(metrics) = 1
    /\ metrics[1].value = 12345

\* the connection parameters as configured, absent ones empty or zero
C7_Text(key) == IF key \in DOMAIN instance THEN instance[key] ELSE ""

C7_Port == IF "port" \in DOMAIN instance THEN instance["port"] ELSE 0

\* C7: for a configuration that passes validation, _connect makes exactly
\* one connect call, by defaults file if that path is non-empty, else by
\* unix socket if the socket path is non-empty, else by host and port if the
\* port is non-zero, else by host alone.
C7_ConnectPrecedence ==
    db # <<>>
    => /\ Len(db) = 1
       /\ C6_ConfigOk
       /\ LET call == db[1]
          IN IF C7_Text("defaults_file") # ""
             THEN /\ DOMAIN call = {"read_default_file", "db"}
                  /\ call.read_default_file = C7_Text("defaults_file")
             ELSE IF C7_Text("sock") # ""
             THEN /\ DOMAIN call = {"unix_socket", "user", "passwd", "db"}
                  /\ call.unix_socket = C7_Text("sock")
             ELSE IF C7_Port # 0
             THEN /\ DOMAIN call = {"host", "port", "user", "passwd", "db"}
                  /\ call.host = C7_Text("server")
                  /\ call.port = C7_Port
             ELSE /\ DOMAIN call = {"host", "user", "passwd", "db"}
                  /\ call.host = C7_Text("server")

C7_Witness ==
    /\ pc = "version"
    /\ Len(db) = 1
    /\ C7_Text("defaults_file") # ""
    /\ C7_Text("sock") # ""
    /\ C7_Port # 0
    /\ DOMAIN db[1] = {"read_default_file", "db"}

=============================================================================
